---- MODULE Spec2Model ----
(***************************************************************************)
(* Selection and state synchronisation of the AI-skills dashboard          *)
(* (src/unnamed/part_001): the selection state, its URL-fragment codec,    *)
(* local storage, the three chart surfaces, the insight drawer, the        *)
(* discipline view and the source list.                                    *)
(*                                                                         *)
(* Strings that travel through the URL are sequences of tokens.  A token   *)
(* is either one of the characters the codec treats specially              *)
(* (" ", "&", "=", "+", "%", ":", "#"), a two-digit hexadecimal code       *)
(* ("20", "26", ...) or a word: a run of characters that the codec copies  *)
(* unchanged.  An optional value (null in the code) is a sequence of       *)
(* length 0 or 1.                                                          *)
(***************************************************************************)
EXTENDS Integers, Sequences, FiniteSets, TLC

None == <<>>
Some(x) == <<x>>

\* JavaScript truthiness of an optional string: null and "" are falsy.
Truthy(opt) == opt # None /\ opt[1] # <<>>

\* ------------------------------------------------------------------------
\* URLSearchParams and the URL fragment
\* ------------------------------------------------------------------------

\* The application/x-www-form-urlencoded byte serializer, one character.
FormEncodeChar_raw(c) == <<c>>

FormEncodeChar(c) ==
  CASE c = " " -> <<"+">>
    [] c = "&" -> <<"%", "26">>
    [] c = "=" -> <<"%", "3D">>
    [] c = "+" -> <<"%", "2B">>
    [] c = "%" -> <<"%", "25">>
    [] c = ":" -> <<"%", "3A">>
    [] c = "#" -> <<"%", "23">>
    [] OTHER   -> <<c>>

RECURSIVE FormEncode(_)
FormEncode(s) ==
  IF s = <<>> THEN <<>> ELSE FormEncodeChar(Head(s)) \o FormEncode(Tail(s))

HexCodes == {"20", "23", "25", "26", "2B", "3A", "3D"}

HexChar(h) ==
  CASE h = "20" -> " "
    [] h = "23" -> "#"
    [] h = "25" -> "%"
    [] h = "26" -> "&"
    [] h = "2B" -> "+"
    [] h = "3A" -> ":"
    [] h = "3D" -> "="

\* Decoding of one name or value: "+" becomes a space, then "%XY" becomes
\* the character XY codes; a "%" that no code follows stays as it is.
RECURSIVE FormDecode(_)
FormDecode(s) ==
  IF s = <<>> THEN <<>>
  ELSE IF Head(s) = "+" THEN <<" ">> \o FormDecode(Tail(s))
  ELSE IF Head(s) = "%" /\ Len(s) >= 2 /\ s[2] \in HexCodes
       THEN <<HexChar(s[2])>> \o FormDecode(Tail(Tail(s)))
  ELSE <<Head(s)>> \o FormDecode(Tail(s))

\* Index of the first occurrence of c in s, 0 when there is none.
IndexOf(s, c) ==
  IF \E i \in 1..Len(s) : s[i] = c
  THEN CHOOSE i \in 1..Len(s) : s[i] = c /\ \A j \in 1..(i - 1) : s[j] # c
  ELSE 0

\* s split at every "&".
RECURSIVE SplitAmp(_)
SplitAmp(s) ==
  LET i == IndexOf(s, "&") IN
  IF i = 0 THEN <<s>>
  ELSE <<SubSeq(s, 1, i - 1)>> \o SplitAmp(SubSeq(s, i + 1, Len(s)))

\* One "name=value" piece as a decoded pair; a piece without "=" has the
\* empty value.
ParsePair(piece) ==
  LET i == IndexOf(piece, "=") IN
  IF i = 0 THEN [name |-> FormDecode(piece), value |-> <<>>]
  ELSE [name  |-> FormDecode(SubSeq(piece, 1, i - 1)),
        value |-> FormDecode(SubSeq(piece, i + 1, Len(piece)))]

RECURSIVE ParsePieces(_)
ParsePieces(pieces) ==
  IF pieces = <<>> THEN <<>>
  ELSE IF Head(pieces) = <<>> THEN ParsePieces(Tail(pieces))
  ELSE <<ParsePair(Head(pieces))>> \o ParsePieces(Tail(pieces))

\* new URLSearchParams(string): the list of decoded pairs, empty pieces
\* skipped.
URLSearchParams(s) == ParsePieces(SplitAmp(s))

\* params.get(name): the value of the first pair of that name, or null.
ParamsGet(params, name) ==
  IF \E i \in 1..Len(params) : params[i].name = name
  THEN Some(params[CHOOSE i \in 1..Len(params) :
                     /\ params[i].name = name
                     /\ \A j \in 1..(i - 1) : params[j].name # name].value)
  ELSE None

\* params.set(name, value) on a list that has no pair of that name yet.
ParamsSet(params, name, value) ==
  Append(params, [name |-> name, value |-> value])

\* params.toString()
RECURSIVE ParamsToString(_)
ParamsToString(params) ==
  IF params = <<>> THEN <<>>
  ELSE LET p == Head(params)
           one == FormEncode(p.name) \o <<"=">> \o FormEncode(p.value)
       IN IF Len(params) = 1 THEN one
          ELSE one \o <<"&">> \o ParamsToString(Tail(params))

\* The URL parser's fragment state: a space is percent-encoded, the other
\* characters of the model's alphabet are copied.
RECURSIVE FragmentEncode(_)
FragmentEncode(s) ==
  IF s = <<>> THEN <<>>
  ELSE (IF Head(s) = " " THEN <<"%", "20">> ELSE <<Head(s)>>)
       \o FragmentEncode(Tail(s))

\* location.hash: "#" and the fragment, or "" when the fragment is empty.
LocationHash(frag) == IF frag = <<>> THEN <<>> ELSE <<"#">> \o frag

\* string.replace(/^#/, "")
StripHash(s) == IF s # <<>> /\ Head(s) = "#" THEN Tail(s) ELSE s

\* ------------------------------------------------------------------------
\* The dataset (data.json)
\* ------------------------------------------------------------------------

TREND  == <<"aiMentionsTrend">>
FAMILY == <<"aiMentionsByFamily">>
SHARE  == <<"aiOutsideITShare">>

\* The three chart identifiers the page has a surface for.
ChartKeys == <<TREND, FAMILY, SHARE>>

Detail(h) == [headline |-> h]

DataCharts ==
  (TREND :> [labels    |-> << <<"2024-Q1">> >>,
             sourceId  |-> "lightcast",
             asOfDate  |-> "2025-01",
             drilldown |-> (<<"2024-Q1">> :> Detail("T1"))])
  @@
  (FAMILY :> [labels    |-> << <<"Nursing">>, <<"Business">>,
                               <<"IT", ":", ":", "Data">> >>,
              sourceId  |-> "bls",
              asOfDate  |-> "2025-02",
              drilldown |-> (<<"Nursing">> :> Detail("H1"))
                            @@ (<<"IT", ":", ":", "Data">> :> Detail("H3"))])
  @@
  (SHARE :> [labels    |-> << <<"Outside", " ", "IT">>, <<"R", "&", "D">> >>,
             sourceId  |-> "wef",
             asOfDate  |-> "2025-03",
             drilldown |-> (<<"Outside", " ", "IT">> :> Detail("S1"))])

\* Keys of sources in declaration order; "wef" and "ghost" are referenced
\* by a chart and by a discipline but have no entry.
DataSources == <<"lightcast", "bls", "linkedin">>

NURSING == <<"Nursing">>
DATASCI == <<"Data", " ", "Science">>

DataDisciplines ==
  [names   |-> <<NURSING, DATASCI>>,
   sources |-> (NURSING :> <<"bls", "linkedin">>)
               @@ (DATASCI :> <<"lightcast", "ghost", "lightcast">>)]

NoDisciplines == [names |-> <<>>, sources |-> <<>>]

\* What validateDataShape looks at besides the charts: the type of the
\* loaded value ("object", "null" or "number"), whether takeaway.headline is
\* there, and whether coreSkills, sources and disciplines are an "array",
\* an "object" or "missing".
GoodShape ==
  [top |-> "object", headline |-> TRUE, coreSkills |-> "array",
   sources |-> "object", disciplines |-> "object"]

DataFull == [shape |-> GoodShape, charts |-> DataCharts,
             sources |-> DataSources, disciplines |-> DataDisciplines]

DataNoDisciplines == [shape |-> GoodShape, charts |-> DataCharts,
                      sources |-> DataSources, disciplines |-> NoDisciplines]

\* "disciplines": []
DataDisciplinesArray ==
  [DataNoDisciplines EXCEPT !.shape.disciplines = "array"]

\* A value without properties: null, or a number.
Bare(top) ==
  [shape |-> [top |-> top, headline |-> FALSE, coreSkills |-> "missing",
              sources |-> "missing", disciplines |-> "missing"],
   charts |-> <<>>, sources |-> <<>>, disciplines |-> NoDisciplines]

DataNoHeadline == [DataFull EXCEPT !.shape.headline = FALSE]

\* "sources": [...] and no disciplines
DataSourcesArray ==
  [DataFull EXCEPT !.shape.sources = "array", !.shape.disciplines = "missing",
                   !.disciplines = NoDisciplines]

\* coreSkills is not an array and aiOutsideITShare has no sourceId
DataNoShareSource ==
  [DataFull EXCEPT !.shape.coreSkills = "object",
                   !.charts[SHARE].sourceId = ""]

ValidDatasets == {DataFull, DataNoDisciplines, DataDisciplinesArray}

Datasets ==
  ValidDatasets \cup {Bare("null"), Bare("number"), DataNoHeadline,
                      DataSourcesArray, DataNoShareSource}

Range(seq) == {seq[i] : i \in 1..Len(seq)}

\* ------------------------------------------------------------------------
\* The page: state, views and the steps of the handlers.  A step maps the
\* record w of everything the page can change to its value after the step:
\*   data         dashboardData
\*   state        the selection state
\*   fragment     the fragment of the page's URL
\*   storage      localStorage.selectedDiscipline
\*   charts       for each created chart, the labels drawn emphasised
\*   drawer       the insight drawer
\*   sourcesList  the items of #sources-list
\*   discPanel    the title of the discipline view
\*   alert        the text of #app-alert, if visible
\*   trace        the steps the running handler has executed, each with the
\*                selection state it saw
\* ------------------------------------------------------------------------

DefaultState ==
  [selectedInsight |-> None, selectedDiscipline |-> None,
   sourceFilter |-> "selection"]

Insight(chartKey, label) == Some([chartKey |-> chartKey, label |-> label])

Log(w, step) ==
  [w EXCEPT !.trace = Append(@, [step |-> step, state |-> w.state])]

getSelectionKey(chartKey, label) == chartKey \o <<":", ":">> \o label

updateHash_noDiscipline(w0) ==
  LET w == Log(w0, "updateHash")
      si == w.state.selectedInsight
      params == IF si # None
                THEN ParamsSet(ParamsSet(<<>>, <<"chart">>, si[1].chartKey),
                               <<"label">>, si[1].label)
                ELSE <<>>
  IN [w EXCEPT !.fragment = FragmentEncode(ParamsToString(params))]

updateHash(w0) ==
  LET w == Log(w0, "updateHash")
      sd == w.state.selectedDiscipline
      si == w.state.selectedInsight
      p0 == <<>>
      p1 == IF Truthy(sd) THEN ParamsSet(p0, <<"discipline">>, sd[1]) ELSE p0
      p2 == IF si # None
            THEN ParamsSet(ParamsSet(p1, <<"chart">>, si[1].chartKey),
                           <<"label">>, si[1].label)
            ELSE p1
      hashString == ParamsToString(p2)
  IN [w EXCEPT !.fragment = FragmentEncode(hashString)]

applyStateFromHash_chartOnly(w0) ==
  LET w == Log(w0, "applyStateFromHash")
      params == URLSearchParams(StripHash(LocationHash(w.fragment)))
      disciplineParam == ParamsGet(params, <<"discipline">>)
      chartParam == ParamsGet(params, <<"chart">>)
      labelParam == ParamsGet(params, <<"label">>)
      sd == IF Truthy(disciplineParam) THEN disciplineParam
            ELSE IF Truthy(w.storage) THEN w.storage ELSE None
      si == IF Truthy(chartParam)
            THEN Insight(chartParam[1],
                         IF labelParam # None THEN labelParam[1] ELSE <<>>)
            ELSE w.state.selectedInsight
  IN [w EXCEPT !.state.selectedDiscipline = sd, !.state.selectedInsight = si]

applyStateFromHash_storageFirst(w0) ==
  LET w == Log(w0, "applyStateFromHash")
      params == URLSearchParams(StripHash(LocationHash(w.fragment)))
      disciplineParam == ParamsGet(params, <<"discipline">>)
      chartParam == ParamsGet(params, <<"chart">>)
      labelParam == ParamsGet(params, <<"label">>)
      sd == IF Truthy(w.storage) THEN w.storage
            ELSE IF Truthy(disciplineParam) THEN disciplineParam ELSE None
      si == IF Truthy(chartParam) /\ Truthy(labelParam)
            THEN Insight(chartParam[1], labelParam[1])
            ELSE w.state.selectedInsight
  IN [w EXCEPT !.state.selectedDiscipline = sd, !.state.selectedInsight = si]

applyStateFromHash(w0) ==
  LET w == Log(w0, "applyStateFromHash")
      params == URLSearchParams(StripHash(LocationHash(w.fragment)))
      disciplineParam == ParamsGet(params, <<"discipline">>)
      chartParam == ParamsGet(params, <<"chart">>)
      labelParam == ParamsGet(params, <<"label">>)
      sd == IF Truthy(disciplineParam) THEN disciplineParam
            ELSE IF Truthy(w.storage) THEN w.storage ELSE None
      si == IF Truthy(chartParam) /\ Truthy(labelParam)
            THEN Insight(chartParam[1], labelParam[1])
            ELSE w.state.selectedInsight
  IN [w EXCEPT !.state.selectedDiscipline = sd, !.state.selectedInsight = si]

\* The source ids of the current selection, in insertion order of the Set.
getSelectedSourceIds(w) ==
  LET si == w.state.selectedInsight
      sd == w.state.selectedDiscipline
      fromChart ==
        IF si # None /\ si[1].chartKey \in DOMAIN w.data.charts
        THEN <<w.data.charts[si[1].chartKey].sourceId>>
        ELSE <<>>
      fromDiscipline ==
        IF Truthy(sd) /\ sd[1] \in DOMAIN w.data.disciplines.sources
        THEN w.data.disciplines.sources[sd[1]]
        ELSE <<>>
      all == fromChart \o fromDiscipline
  IN SelectSeq([i \in 1..Len(all) |->
                  IF \E j \in 1..(i - 1) : all[j] = all[i]
                  THEN "" ELSE all[i]],
               LAMBDA id : id # "")

Placeholder == [kind |-> "placeholder", id |-> ""]
Link(id) == [kind |-> "link", id |-> id]

renderSources(w0) ==
  LET w == Log(w0, "renderSources")
      sourceIds == IF w.state.sourceFilter = "all" THEN w.data.sources
                   ELSE getSelectedSourceIds(w)
      resolvable == SelectSeq(sourceIds, LAMBDA id : id \in Range(w.data.sources))
      items == IF sourceIds = <<>> THEN <<Placeholder>>
               ELSE [i \in 1..Len(resolvable) |-> Link(resolvable[i])]
  IN [w EXCEPT !.sourcesList = items]

\* The drawer: which of its three contents it shows, the headline, and for a
\* detail the text and the target of the source link and the as-of date.
Drawer(kind, headline, source, href, asOf) ==
  [kind |-> kind, headline |-> headline, source |-> source, href |-> href,
   asOf |-> asOf]

BlankDrawer == Drawer("blank", "", "", "", "")

\* Names every object inherits from Object.prototype: drilldown[label] is
\* not undefined for them.
ObjectPrototypeKeys == { <<"constructor">>, <<"toString">> }

renderInsightDrawer(w0) ==
  LET w == Log(w0, "renderInsightDrawer")
      si == w.state.selectedInsight
      hasChart == si # None /\ si[1].chartKey \in DOMAIN w.data.charts
      chartObj == w.data.charts[si[1].chartKey]
      own == hasChart /\ si[1].label \in DOMAIN chartObj.drilldown
      hasDetail == own \/ (hasChart /\ si[1].label \in ObjectPrototypeKeys)
      drawn ==
        IF si = None THEN Drawer("prompt", "", "", "", "")
        ELSE IF ~hasDetail THEN Drawer("nodetail", "", "", "", "")
        ELSE Drawer("detail",
                    IF own THEN chartObj.drilldown[si[1].label].headline
                    ELSE "",
                    chartObj.sourceId,
                    IF chartObj.sourceId \in Range(w.data.sources)
                    THEN chartObj.sourceId ELSE "#",
                    chartObj.asOfDate)
  IN renderSources([w EXCEPT !.drawer = drawn])

\* The labels of chart chartKey that the scriptable options (pointRadius,
\* pointBackgroundColor, backgroundColor) draw as selected.
Emphasised(w, chartKey) ==
  LET si == w.state.selectedInsight IN
  {l \in Range(w.data.charts[chartKey].labels) :
     si # None /\ si[1].chartKey = chartKey /\ si[1].label = l}

updateAllChartStyles_cached(w0) == Log(w0, "updateAllChartStyles")

updateAllChartStyles(w0) ==
  LET w == Log(w0, "updateAllChartStyles") IN
  [w EXCEPT !.charts = [k \in DOMAIN w.charts |-> Emphasised(w, k)]]

\* createLineChart, createBarChart, createDonutChart: the chart is created
\* and drawn with the state of that moment.
createChart(w0, chartKey) ==
  LET w == Log(w0, "createChart") IN
  IF chartKey \notin DOMAIN w.data.charts THEN w
  ELSE [w EXCEPT !.charts = (chartKey :> Emphasised(w, chartKey)) @@ @]

handleSelection_noToggle(w0, chartKey, label) ==
  LET w1 == Log([w0 EXCEPT !.state.selectedInsight = Insight(chartKey, label)],
                "mutate")
  IN renderInsightDrawer(updateAllChartStyles(updateHash(w1)))

handleSelection_renderFirst(w0, chartKey, label) ==
  LET si == w0.state.selectedInsight
      sameSelection ==
        /\ si # None
        /\ getSelectionKey(si[1].chartKey, si[1].label)
             = getSelectionKey(chartKey, label)
      w1 == Log([w0 EXCEPT !.state.selectedInsight =
                   IF sameSelection THEN None ELSE Insight(chartKey, label)],
                "mutate")
  IN updateHash(renderInsightDrawer(updateAllChartStyles(w1)))

handleSelection(w0, chartKey, label) ==
  LET si == w0.state.selectedInsight
      sameSelection ==
        /\ si # None
        /\ getSelectionKey(si[1].chartKey, si[1].label)
             = getSelectionKey(chartKey, label)
      w1 == Log([w0 EXCEPT !.state.selectedInsight =
                   IF sameSelection THEN None ELSE Insight(chartKey, label)],
                "mutate")
  IN renderInsightDrawer(updateAllChartStyles(updateHash(w1)))

showDiscipline_toggle(w0, name) ==
  IF name \notin DOMAIN w0.data.disciplines.sources THEN w0
  ELSE LET sd == IF w0.state.selectedDiscipline = Some(name)
                 THEN None ELSE Some(name)
           w1 == Log([w0 EXCEPT !.state.selectedDiscipline = sd], "mutate")
           w2 == Log([w1 EXCEPT !.storage = sd], "setItem")
           w3 == updateHash(w2)
           w4 == Log([w3 EXCEPT !.discPanel = Some(name)], "renderDiscipline")
       IN renderSources(w4)

showDiscipline(w0, name) ==
  IF name \notin DOMAIN w0.data.disciplines.sources THEN w0
  ELSE LET w1 == Log([w0 EXCEPT !.state.selectedDiscipline = Some(name)],
                     "mutate")
           w2 == Log([w1 EXCEPT !.storage = Some(name)], "setItem")
           w3 == updateHash(w2)
           w4 == Log([w3 EXCEPT !.discPanel = Some(name)], "renderDiscipline")
       IN renderSources(w4)

renderDisciplineView(w) ==
  LET disciplines == w.data.disciplines.names
      sd == w.state.selectedDiscipline
  IN IF disciplines = <<>> THEN w
     ELSE showDiscipline(w, IF sd # None /\ sd[1] \in Range(disciplines)
                            THEN sd[1] ELSE disciplines[1])

onClearSelection_reset(w0) ==
  LET w1 == Log([w0 EXCEPT !.state = DefaultState], "mutate")
  IN renderInsightDrawer(updateAllChartStyles(updateHash(w1)))

\* The click handler of #clear-selection-button.
onClearSelection(w0) ==
  LET w1 == Log([w0 EXCEPT !.state.selectedInsight = None], "mutate")
  IN renderInsightDrawer(updateAllChartStyles(updateHash(w1)))

onSourceFilterChange_noRender(w0, value) ==
  Log([w0 EXCEPT !.state.sourceFilter = value], "mutate")

\* The change handler of #sources-filter-select.
onSourceFilterChange(w0, value) ==
  LET w1 == Log([w0 EXCEPT !.state.sourceFilter = value], "mutate")
  IN renderSources(w1)

E1 == "Dashboard data is not a valid object."
E2 == "Missing takeaway.headline."
E3 == "Missing coreSkills array."
E4 == "Missing charts.aiMentionsTrend source metadata."
E5 == "Missing charts.aiMentionsByFamily source metadata."
E6 == "Missing charts.aiOutsideITShare source metadata."
E7 == "sources must be an object keyed by sourceId."
E8 == "Missing disciplines object."

When(cond, e) == IF cond THEN <<e>> ELSE <<>>

\* data.charts?.[chartKey]?.sourceId is truthy
HasSourceId(data, chartKey) ==
  chartKey \in DOMAIN data.charts /\ data.charts[chartKey].sourceId # ""

\* The result of validateDataShape(data): the errors it returns, or that it
\* threw (reading data.takeaway of null).
validateDataShape(data) ==
  IF data.shape.top = "null" THEN [threw |-> TRUE, errors |-> <<>>]
  ELSE [threw  |-> FALSE,
        errors |-> When(data.shape.top # "object", E1)
                   \o When(~data.shape.headline, E2)
                   \o When(data.shape.coreSkills # "array", E3)
                   \o When(~HasSourceId(data, TREND), E4)
                   \o When(~HasSourceId(data, FAMILY), E5)
                   \o When(~HasSourceId(data, SHARE), E6)
                   \o When(data.shape.sources \notin {"object"}, E7)
                   \o When(data.shape.disciplines \notin {"object", "array"},
                           E8)]

\* An alert text: what it starts with and the messages that follow.
Alert(prefix, detail) == Some([prefix |-> prefix, detail |-> detail])

showAlert(w, prefix, detail) == [w EXCEPT !.alert = Alert(prefix, detail)]

clearAlert(w) == [w EXCEPT !.alert = None]

\* The .catch of the boot: the error is reported and nothing else runs.
catchHandler(w, message) ==
  [showAlert(w, "Could not initialize dashboard", message)
     EXCEPT !.failed = TRUE]

\* The texts the copy-link and download-snapshot handlers show.
copyResolved_clearsInsight(w) ==
  [showAlert(w, "Link copied to clipboard.", <<>>)
     EXCEPT !.state.selectedInsight = None]

\* After navigator.clipboard.writeText resolved.
copyResolved(w) == showAlert(w, "Link copied to clipboard.", <<>>)

\* The catch of the copy-link handler.
copyRejected(w) == showAlert(w, "Could not copy link automatically", <<>>)

\* The catch of the download-snapshot handler.
snapshotRejected(w) ==
  showAlert(w, "Unable to generate snapshot in this browser.", <<>>)

TypeErrorMessage == <<"TypeError">>
FetchErrorMessage == <<"Failed to load data.json">>

init(w0) ==
  LET w1 == applyStateFromHash(w0)
      w2 == createChart(createChart(createChart(w1, TREND), FAMILY), SHARE)
      w3 == renderInsightDrawer(w2)
      w4 == renderDisciplineView(w3)
      w5 == renderSources(w4)
  IN IF w5.state.selectedInsight # None THEN updateAllChartStyles(w5) ELSE w5

thenHandler_noAbort(w0) ==
  LET issues == validateDataShape(w0.data) IN
  IF issues.threw THEN catchHandler(w0, TypeErrorMessage)
  ELSE IF issues.errors # <<>>
  THEN init(showAlert(w0, "Data validation problem", issues.errors))
  ELSE init(clearAlert(w0))

\* The .then of the boot: validation, then either the alert and the throw
\* that .catch receives, or clearAlert and init.
thenHandler(w0) ==
  LET issues == validateDataShape(w0.data) IN
  IF issues.threw THEN catchHandler(w0, TypeErrorMessage)
  ELSE IF issues.errors # <<>>
  THEN catchHandler(showAlert(w0, "Data validation problem", issues.errors),
                    issues.errors)
  ELSE init(clearAlert(w0))

\* ------------------------------------------------------------------------
\* The state machine
\* ------------------------------------------------------------------------

VARIABLES
  pc,            \* "loading" until loadData() settles, then "ready" or "failed"
  dataset,       \* the data.json the server holds
  dashboardData, \* the loaded dataset, once assigned
  state,         \* the selection state
  fragment,      \* the fragment of the page's URL
  storage,       \* localStorage.selectedDiscipline
  charts,        \* the created charts and their emphasised labels
  drawer,        \* the insight drawer
  sourcesList,   \* the items of #sources-list
  discPanel,     \* the title of the discipline view
  alert,         \* the text of #app-alert, if visible
  trace,         \* the steps of the last selection or boot handler that ran
  lastEvent,     \* the last event and what its handler started from
  prevEvent,     \* the event before it
  started,       \* how many copy-link and snapshot clicks were handled
  copies,        \* the clipboard writes awaited: click numbers
  snaps,         \* the html2canvas calls awaited: click numbers
  timers,        \* the pending clearAlert timeouts, by the click that set them
  alertBy,       \* the click whose handler showed the alert, 0 if none did
  lastBanner     \* the last step of a copy-link or snapshot handler

vars == <<pc, dataset, dashboardData, state, fragment, storage, charts,
          drawer, sourcesList, discPanel, alert, trace, lastEvent, prevEvent,
          started, copies, snaps, timers, alertBy, lastBanner>>

\* What the page holds for the copy-link and snapshot handlers.
banner == <<started, copies, snaps, timers, alertBy, lastBanner>>

\* A step of a copy-link or snapshot handler: its kind, the click it
\* belongs to and, for an expired timeout, the click whose alert it hid.
BannerStep(op, id, hid) == [op |-> op, id |-> id, hid |-> hid]

\* Fragments a page load can start from.
InitialFragments ==
  { <<>>,
    <<"discipline", "=", "Nursing">>,
    <<"discipline", "=", "Bogus">>,
    <<"chart", "=", "aiMentionsByFamily", "&", "label", "=", "Nursing">>,
    <<"chart", "=", "bogus", "&", "label", "=", "x">>,
    <<"discipline", "=", "Data", "+", "Science", "&",
      "chart", "=", "aiOutsideITShare", "&", "label", "=", "Outside", "+", "IT">>,
    <<"chart", "=", "aiMentionsByFamily", "%", "3A", "%", "3A", "IT", "&",
      "label", "=", "Data">>,
    <<"chart", "=", "aiMentionsTrend">>,
    <<"chart", "=", "aiMentionsByFamily", "&", "label", "=", "constructor">>,
    <<"utm", "=", "x", "&", "discipline", "=", "Nursing">>,
    <<"discipline", "=", "&", "label", "=", "IT">>,
    <<"label", "=", "Outside", "%", "20", "IT", "&",
      "chart", "=", "aiOutsideITShare">> }

\* Values local storage can hold when the page is first opened.
InitialStorage == { None, Some(NURSING), Some(<<"Bogus">>) }

\* An event: its kind and arguments, and the selection state, fragment and
\* local storage its handler started from.
NoEvent ==
  [op |-> "none", a |-> <<>>, b |-> <<>>, pre |-> DefaultState,
   fragment |-> <<>>, storage |-> None]

Event(op, a, b) ==
  [op |-> op, a |-> a, b |-> b, pre |-> state,
   fragment |-> fragment, storage |-> storage]

Init ==
  /\ pc = "loading"
  /\ dataset \in Datasets
  /\ dashboardData = None
  /\ state = DefaultState
  /\ fragment \in InitialFragments
  /\ storage \in InitialStorage
  /\ charts = <<>>
  /\ drawer = BlankDrawer
  /\ sourcesList = <<>>
  /\ discPanel = None
  /\ alert = None
  /\ trace = <<>>
  /\ lastEvent = NoEvent
  /\ prevEvent = NoEvent
  /\ started = 0
  /\ copies = <<>>
  /\ snaps = <<>>
  /\ timers = <<>>
  /\ alertBy = 0
  /\ lastBanner = BannerStep("none", 0, <<>>)

\* The page as the record the steps work on, at the start of a handler.
World ==
  [data |-> dataset, state |-> state, fragment |-> fragment,
   storage |-> storage, charts |-> charts, drawer |-> drawer,
   sourcesList |-> sourcesList, discPanel |-> discPanel, alert |-> alert,
   trace |-> <<>>, failed |-> FALSE]

CommitPage(w) ==
  /\ state' = w.state
  /\ fragment' = w.fragment
  /\ storage' = w.storage
  /\ charts' = w.charts
  /\ drawer' = w.drawer
  /\ sourcesList' = w.sourcesList
  /\ discPanel' = w.discPanel
  /\ alert' = w.alert

Commit(w) ==
  /\ CommitPage(w)
  /\ trace' = w.trace

Record(op, a, b) ==
  /\ lastEvent' = Event(op, a, b)
  /\ prevEvent' = lastEvent

\* loadData() resolves with the dataset: validation, then either the alert
\* or clearAlert(), dashboardData = data, init(dashboardData).
Boot ==
  /\ pc = "loading"
  /\ LET w == thenHandler(World) IN
       /\ pc' = IF w.failed THEN "failed" ELSE "ready"
       /\ dashboardData' = IF w.failed THEN None ELSE Some(dataset)
       /\ Commit(w)
       /\ Record(IF w.failed THEN "bootFailed" ELSE "boot", <<>>, <<>>)
  /\ UNCHANGED dataset
  /\ UNCHANGED banner

\* loadData() rejects: the fetch failed or the response was not ok.
LoadFail ==
  /\ pc = "loading"
  /\ pc' = "failed"
  /\ Commit(catchHandler(World, FetchErrorMessage))
  /\ Record("loadFailed", <<>>, <<>>)
  /\ UNCHANGED <<dataset, dashboardData>>
  /\ UNCHANGED banner

\* onClick of a chart: the element with index idx was activated.
ChartClick ==
  /\ pc = "ready"
  /\ \E chartKey \in DOMAIN charts :
       \E idx \in 1..Len(dataset.charts[chartKey].labels) :
         LET label == dataset.charts[chartKey].labels[idx] IN
         /\ Commit(handleSelection(World, chartKey, label))
         /\ Record("click", chartKey, label)
  /\ UNCHANGED <<pc, dataset, dashboardData>>
  /\ UNCHANGED banner

ClearClick ==
  /\ pc = "ready"
  /\ Commit(onClearSelection(World))
  /\ Record("clear", <<>>, <<>>)
  /\ UNCHANGED <<pc, dataset, dashboardData>>
  /\ UNCHANGED banner

FilterChange ==
  /\ pc = "ready"
  /\ \E value \in {"selection", "all"} :
       /\ Commit(onSourceFilterChange(World, value))
       /\ Record("filter", <<value>>, <<>>)
  /\ UNCHANGED <<pc, dataset, dashboardData>>
  /\ UNCHANGED banner

\* A click on one of the discipline buttons renderDisciplineView created.
DisciplineClick ==
  /\ pc = "ready"
  /\ \E name \in Range(dataset.disciplines.names) :
       /\ Commit(showDiscipline(World, name))
       /\ Record("discipline", name, <<>>)
  /\ UNCHANGED <<pc, dataset, dashboardData>>
  /\ UNCHANGED banner

\* The page is loaded again: script state and DOM start afresh, awaited
\* calls and timeouts go with the old page, the URL and local storage stay.
FreshPage ==
  /\ pc' = "loading"
  /\ dashboardData' = None
  /\ state' = DefaultState
  /\ charts' = <<>>
  /\ drawer' = BlankDrawer
  /\ sourcesList' = <<>>
  /\ discPanel' = None
  /\ alert' = None
  /\ trace' = <<>>
  /\ copies' = <<>>
  /\ snaps' = <<>>
  /\ timers' = <<>>
  /\ alertBy' = 0
  /\ UNCHANGED <<started, lastBanner>>

Reload ==
  /\ pc = "ready"
  /\ FreshPage
  /\ Record("reload", <<>>, <<>>)
  /\ UNCHANGED <<dataset, fragment, storage>>

\* The page is opened again at its URL without the fragment.
ReloadWithoutFragment ==
  /\ pc = "ready"
  /\ FreshPage
  /\ fragment' = <<>>
  /\ Record("reloadNoFragment", <<>>, <<>>)
  /\ UNCHANGED <<dataset, storage>>

Next ==
  \/ Boot
  \/ LoadFail
  \/ ChartClick
  \/ ClearClick
  \/ FilterChange
  \/ DisciplineClick
  \/ Reload
  \/ ReloadWithoutFragment

Spec == Init /\ [][Next]_vars

\* ------------------------------------------------------------------------
\* The copy-link and download-snapshot buttons
\* ------------------------------------------------------------------------

\* How many copy-link and snapshot clicks a behaviour has.
MaxOps == 2

Remove(seq, i) == SubSeq(seq, 1, i - 1) \o SubSeq(seq, i + 1, Len(seq))

\* A click on #copy-link-button: writeText(window.location.href) is called
\* and awaited.
CopyLinkClick ==
  /\ pc = "ready"
  /\ started < MaxOps
  /\ started' = started + 1
  /\ copies' = Append(copies, started + 1)
  /\ CommitPage(World)
  /\ lastBanner' = BannerStep("copyClick", started + 1, <<>>)
  /\ UNCHANGED <<pc, dataset, dashboardData, trace, lastEvent, prevEvent,
                 snaps, timers, alertBy>>

\* An awaited writeText settles: the URL is on the clipboard, outside the
\* page, and the confirmation and its timeout follow; or the failure message.
CopySettle ==
  /\ pc = "ready"
  /\ \E i \in 1..Len(copies) :
       /\ copies' = Remove(copies, i)
       /\ alertBy' = copies[i]
       /\ \/ /\ CommitPage(copyResolved(World))
             /\ timers' = Append(timers, copies[i])
             /\ lastBanner' = BannerStep("copyResolved", copies[i], <<>>)
          \/ /\ CommitPage(copyRejected(World))
             /\ lastBanner' = BannerStep("copyRejected", copies[i], <<>>)
             /\ UNCHANGED timers
  /\ UNCHANGED <<pc, dataset, dashboardData, trace, lastEvent, prevEvent,
                 started, snaps>>

\* A click on #download-snapshot-button: html2canvas(target) is called and
\* awaited.
SnapshotClick ==
  /\ pc = "ready"
  /\ started < MaxOps
  /\ started' = started + 1
  /\ snaps' = Append(snaps, started + 1)
  /\ CommitPage(World)
  /\ lastBanner' = BannerStep("snapshotClick", started + 1, <<>>)
  /\ UNCHANGED <<pc, dataset, dashboardData, trace, lastEvent, prevEvent,
                 copies, timers, alertBy>>

\* An awaited html2canvas settles: the file is offered for download, which
\* leaves the page as it is, or the failure message is shown.
SnapshotSettle ==
  /\ pc = "ready"
  /\ \E i \in 1..Len(snaps) :
       /\ snaps' = Remove(snaps, i)
       /\ \/ /\ CommitPage(World)
             /\ lastBanner' = BannerStep("snapshotResolved", snaps[i], <<>>)
             /\ UNCHANGED alertBy
          \/ /\ CommitPage(snapshotRejected(World))
             /\ alertBy' = snaps[i]
             /\ lastBanner' = BannerStep("snapshotRejected", snaps[i], <<>>)
  /\ UNCHANGED <<pc, dataset, dashboardData, trace, lastEvent, prevEvent,
                 started, copies, timers>>

\* The oldest setTimeout(clearAlert, 1600) expires.
TimerFire ==
  /\ pc = "ready"
  /\ timers # <<>>
  /\ CommitPage(clearAlert(World))
  /\ timers' = Tail(timers)
  /\ alertBy' = 0
  /\ lastBanner' = BannerStep("timer", Head(timers),
                              IF alert # None THEN <<alertBy>> ELSE <<>>)
  /\ UNCHANGED <<pc, dataset, dashboardData, trace, lastEvent, prevEvent,
                 started, copies, snaps>>

\* The pages the two buttons are exercised on.
BannerFragments ==
  { <<>>, <<"utm", "=", "x", "&", "discipline", "=", "Nursing">> }

BannerInit ==
  /\ Init
  /\ dataset = DataFull
  /\ fragment \in BannerFragments
  /\ storage = None

\* A chart click, the clear button, a filter change or a discipline click,
\* as in ChartClick, ClearClick, FilterChange and DisciplineClick, here
\* without the event history.
SelectionEvent ==
  /\ pc = "ready"
  /\ \/ \E chartKey \in DOMAIN charts :
          \E idx \in 1..Len(dataset.charts[chartKey].labels) :
            Commit(handleSelection(World, chartKey,
                                   dataset.charts[chartKey].labels[idx]))
     \/ Commit(onClearSelection(World))
     \/ \E value \in {"selection", "all"} :
          Commit(onSourceFilterChange(World, value))
     \/ \E name \in Range(dataset.disciplines.names) :
          Commit(showDiscipline(World, name))
  /\ UNCHANGED <<pc, dataset, dashboardData, lastEvent, prevEvent>>
  /\ UNCHANGED banner

BannerNext ==
  \/ Boot
  \/ SelectionEvent
  \/ CopyLinkClick
  \/ CopySettle
  \/ SnapshotClick
  \/ SnapshotSettle
  \/ TimerFire

BannerSpec == BannerInit /\ [][BannerNext]_vars

\* Every awaited call settles and every timeout expires.
FairBannerSpec ==
  /\ BannerSpec
  /\ WF_vars(CopySettle)
  /\ WF_vars(SnapshotSettle)
  /\ WF_vars(TimerFire)

TypeOK ==
  /\ pc \in {"loading", "ready", "failed"}
  /\ state.sourceFilter \in {"selection", "all"}
  /\ Len(state.selectedInsight) <= 1
  /\ Len(state.selectedDiscipline) <= 1

\* ------------------------------------------------------------------------
\* Properties
\* ------------------------------------------------------------------------

Steps == [i \in 1..Len(trace) |-> trace[i].step]

SameClick(e1, e2) ==
  e1.op = "click" /\ e2.op = "click" /\ e1.a = e2.a /\ e1.b = e2.b

\* C1: a chart click (c, l) made while nothing is selected selects exactly
\* {chartKey: c, label: l}, and the same click made again right after it
\* leaves nothing selected.
ToggleTwiceClears ==
  /\ (lastEvent.op = "click" /\ lastEvent.pre.selectedInsight = None)
       => state.selectedInsight = Insight(lastEvent.a, lastEvent.b)
  /\ (SameClick(lastEvent, prevEvent) /\ prevEvent.pre.selectedInsight = None)
       => /\ lastEvent.pre.selectedInsight = Insight(lastEvent.a, lastEvent.b)
          /\ state.selectedInsight = None

ToggleTwiceWitness ==
  /\ SameClick(lastEvent, prevEvent)
  /\ prevEvent.pre.selectedInsight = None
  /\ state.selectedInsight = None

\* C2: a chart click (c, l) clears the selection only when the selection it
\* found has chartKey = c and label = l, and in every other case the
\* selection becomes exactly {chartKey: c, label: l}.
ToggleComparesByValue ==
  lastEvent.op = "click" =>
    LET found == lastEvent.pre.selectedInsight
        clicked == Insight(lastEvent.a, lastEvent.b)
    IN /\ state.selectedInsight = None => found = clicked
       /\ found # clicked => state.selectedInsight = clicked

\* C3: a selected insight names a chart of the dataset and one of that
\* chart's labels.
InsightIsChartElement ==
  state.selectedInsight # None =>
    /\ state.selectedInsight[1].chartKey \in DOMAIN dataset.charts
    /\ state.selectedInsight[1].label
         \in Range(dataset.charts[state.selectedInsight[1].chartKey].labels)

IsDiscipline(sd) == sd = None \/ sd[1] \in Range(dataset.disciplines.names)

Readers == {"renderInsightDrawer", "renderSources"}

\* C4: a selected discipline is a key of disciplines, in the state a handler
\* leaves and in every state renderInsightDrawer and renderSources (and with
\* it getSelectedSourceIds) read while the handler runs.
DisciplineIsKey ==
  /\ IsDiscipline(state.selectedDiscipline)
  /\ \A i \in 1..Len(trace) :
       trace[i].step \in Readers
         => IsDiscipline(trace[i].state.selectedDiscipline)

\* The fragment updateHash writes for the current state, decoded by
\* applyStateFromHash on a fresh page whose local storage holds st.
Decoded(st) ==
  applyStateFromHash([updateHash(World) EXCEPT !.state = DefaultState,
                                               !.storage = st]).state

\* C5: when a discipline and an insight are both selected, the fragment
\* written for the state decodes to the same discipline, chart key and
\* label, whatever local storage holds.
StateRoundTrip ==
  (state.selectedDiscipline # None /\ state.selectedInsight # None) =>
    \A st \in InitialStorage \cup {storage} :
      /\ Decoded(st).selectedDiscipline = state.selectedDiscipline
      /\ Decoded(st).selectedInsight = state.selectedInsight

StateRoundTripWitness ==
  /\ state.selectedDiscipline = Some(DATASCI)
  /\ state.selectedInsight = Insight(SHARE, <<"R", "&", "D">>)
  /\ Decoded(None).selectedInsight = state.selectedInsight

Names(params) == [i \in 1..Len(params) |-> params[i].name]

\* A fragment of the recognised keys in the order discipline, chart, label,
\* chart and label together, every value non-empty and spelled the way
\* URLSearchParams serialises it.
WellFormed(f) ==
  LET params == URLSearchParams(f) IN
  /\ Names(params) \in { <<>>,
                         << <<"discipline">> >>,
                         << <<"chart">>, <<"label">> >>,
                         << <<"discipline">>, <<"chart">>, <<"label">> >> }
  /\ \A i \in 1..Len(params) : params[i].value # <<>>
  /\ ParamsToString(params) = f

CarriesDiscipline(f) ==
  Truthy(ParamsGet(URLSearchParams(f), <<"discipline">>))

\* The fragment a fresh page writes back after decoding its own fragment.
Recoded == updateHash(applyStateFromHash(World)).fragment

\* C6 as stated: on a fresh page, decoding a well-formed fragment and
\* encoding the decoded state yields the fragment again, whatever local
\* storage holds.
FragmentRoundTrip ==
  (pc = "loading" /\ WellFormed(fragment)) => Recoded = fragment

\* C6, amended: decoding a well-formed fragment and encoding the decoded
\* state yields the fragment again when the fragment carries a discipline or
\* local storage holds none; otherwise it yields the fragment with the
\* stored discipline put in front of it.
FragmentRoundTripUnlessStored ==
  (pc = "loading" /\ WellFormed(fragment)) =>
    IF CarriesDiscipline(fragment) \/ ~Truthy(storage)
    THEN Recoded = fragment
    ELSE Recoded = <<"discipline", "=">> \o FormEncode(storage[1])
                     \o (IF fragment = <<>> THEN <<>> ELSE <<"&">> \o fragment)

FragmentRoundTripWitness ==
  /\ pc = "loading"
  /\ lastEvent.op = "reload"
  /\ WellFormed(fragment)
  /\ Len(URLSearchParams(fragment)) = 3
  /\ Truthy(storage)
  /\ ParamsGet(URLSearchParams(fragment), <<"discipline">>) # storage
  /\ Recoded = fragment

IsSubseq(short, long) ==
  \E f \in [1..Len(short) -> 1..Len(long)] :
    /\ \A i \in 1..Len(short) : long[f[i]] = short[i]
    /\ \A i \in 1..(Len(short) - 1) : f[i] < f[i + 1]

Mutators == {"click", "clear", "discipline", "filter"}

\* C7 as stated: every mutator changes the state, writes selectedDiscipline
\* to local storage when it changed, writes the URL hash and re-renders the
\* charts, the drawer and the source list, in this order.
EveryMutatorRunsAllSteps ==
  lastEvent.op \in Mutators =>
    /\ IsSubseq(<<"mutate", "updateHash", "updateAllChartStyles",
                  "renderInsightDrawer", "renderSources">>, Steps)
    /\ state.selectedDiscipline # lastEvent.pre.selectedDiscipline
         => IsSubseq(<<"mutate", "setItem", "updateHash">>, Steps)

\* C7, amended: a chart click and clear-selection change the state, write
\* the URL hash, re-render all three charts, the drawer and the source list,
\* in this order; a discipline click changes the state, writes local
\* storage, writes the URL hash and re-renders the discipline view and the
\* source list; a filter change changes the state and re-renders the source
\* list.
MutatorSteps ==
  /\ lastEvent.op \in {"click", "clear"} =>
       /\ Steps = <<"mutate", "updateHash", "updateAllChartStyles",
                    "renderInsightDrawer", "renderSources">>
       /\ DOMAIN charts = Range(ChartKeys)
       /\ \A i \in 1..Len(trace) : trace[i].state = state
  /\ lastEvent.op = "discipline" =>
       /\ Steps = <<"mutate", "setItem", "updateHash", "renderDiscipline",
                    "renderSources">>
       /\ \A i \in 1..Len(trace) : trace[i].state = state
  /\ lastEvent.op = "filter" =>
       /\ Steps = <<"mutate", "renderSources">>
       /\ \A i \in 1..Len(trace) : trace[i].state = state

MutatorStepsWitness ==
  /\ lastEvent.op = "click"
  /\ prevEvent.op = "discipline"
  /\ Len(trace) = 5
  /\ state.selectedInsight # None

\* The state the first render of the boot (the creation of the first
\* chart) and the first drawer render saw.
Seeded == trace[2].state

\* C8: at boot, before the first render, selectedDiscipline is the
\* fragment's discipline when the fragment carries one, whatever is stored,
\* else the stored one, else empty; selectedInsight is the fragment's chart
\* and label, else empty; sourceFilter is "selection"; and the renders of
\* the boot see no other state until a discipline is shown.
BootSeeding ==
  lastEvent.op = "boot" =>
    LET params == URLSearchParams(lastEvent.fragment)
        d == ParamsGet(params, <<"discipline">>)
        c == ParamsGet(params, <<"chart">>)
        l == ParamsGet(params, <<"label">>)
    IN /\ Steps[1] = "applyStateFromHash" /\ Steps[2] = "createChart"
       /\ \A i \in 2..Len(trace) :
            (\A j \in 2..i : trace[j].step # "mutate")
              => trace[i].state = Seeded
       /\ Truthy(d) => Seeded.selectedDiscipline = d
       /\ ~Truthy(d) =>
            Seeded.selectedDiscipline =
              (IF Truthy(lastEvent.storage) THEN lastEvent.storage ELSE None)
       /\ (lastEvent.fragment = <<>> /\ lastEvent.storage = None)
            => Seeded = DefaultState
       /\ Seeded.selectedInsight =
            (IF Truthy(c) /\ Truthy(l) THEN Insight(c[1], l[1]) ELSE None)
       /\ Seeded.sourceFilter = "selection"

BootSeedingWitness ==
  /\ lastEvent.op = "boot"
  /\ CarriesDiscipline(lastEvent.fragment)
  /\ Truthy(lastEvent.storage)
  /\ Seeded.selectedDiscipline # lastEvent.storage
  /\ Seeded.selectedInsight # None

\* C9: a boot that follows a reload ends with the selected insight and
\* discipline the previous page had, and a boot that follows a reload
\* without the fragment ends with the discipline the previous page had and
\* no insight.
SelectionSurvivesReload ==
  lastEvent.op = "boot" =>
    /\ prevEvent.op = "reload" =>
         /\ state.selectedInsight = prevEvent.pre.selectedInsight
         /\ state.selectedDiscipline = prevEvent.pre.selectedDiscipline
    /\ prevEvent.op = "reloadNoFragment" =>
         /\ state.selectedInsight = None
         /\ state.selectedDiscipline = prevEvent.pre.selectedDiscipline

\* C10: once init has run, and after every handler, rendering the drawer,
\* the source list and the charts again from the current state would change
\* none of them, and all three charts exist.
ViewsInSync ==
  pc = "ready" =>
    /\ DOMAIN charts = Range(ChartKeys)
    /\ updateAllChartStyles(World).charts = charts
    /\ renderInsightDrawer(World).drawer = drawer
    /\ renderSources(World).sourcesList = sourcesList

ViewsInSyncWitness ==
  /\ lastEvent.op = "filter"
  /\ prevEvent.op = "click"
  /\ state.sourceFilter = "all"
  /\ state.selectedInsight # None
  /\ charts[state.selectedInsight[1].chartKey] # {}
  /\ drawer.kind = "detail"
  /\ Len(sourcesList) = 3

\* C11: a click on the button of discipline n leaves selectedDiscipline = n
\* and n in local storage, also when n was selected already, so that
\* discipline clicks never leave selectedDiscipline empty.
DisciplineClickSets ==
  lastEvent.op = "discipline" =>
    /\ lastEvent.a \in Range(dataset.disciplines.names)
    /\ state.selectedDiscipline = Some(lastEvent.a)
    /\ storage = Some(lastEvent.a)
    /\ discPanel = Some(lastEvent.a)

DisciplineClickWitness ==
  /\ lastEvent.op = "discipline"
  /\ prevEvent.op = "discipline"
  /\ lastEvent.a = prevEvent.a
  /\ lastEvent.pre.selectedDiscipline = Some(lastEvent.a)
  /\ state.selectedDiscipline = Some(lastEvent.a)

\* The charts that draw at least one element emphasised.
EmphasisedCharts == {k \in DOMAIN charts : charts[k] # {}}

\* C20: an element l of chart k is drawn emphasised exactly when an insight
\* is selected whose chartKey is k and whose label is l; so at most one
\* chart has emphasised elements, and none has when no insight is selected.
EmphasisFollowsSelection ==
  pc = "ready" =>
    LET si == state.selectedInsight IN
    /\ \A k \in DOMAIN charts :
         \A i \in 1..Len(dataset.charts[k].labels) :
           LET l == dataset.charts[k].labels[i] IN
           l \in charts[k] <=> (si # None /\ si[1].chartKey = k /\ si[1].label = l)
    /\ \A k \in DOMAIN charts : charts[k] \subseteq Range(dataset.charts[k].labels)
    /\ Cardinality(EmphasisedCharts) <= 1
    /\ si = None => EmphasisedCharts = {}

EmphasisWitness ==
  /\ lastEvent.op = "click"
  /\ prevEvent.op = "click"
  /\ lastEvent.a # prevEvent.a
  /\ lastEvent.pre.selectedInsight = Insight(prevEvent.a, prevEvent.b)
  /\ EmphasisedCharts = {lastEvent.a}
  /\ charts[lastEvent.a] = {lastEvent.b}

\* The ids of the source links the citation list shows.
Shown ==
  LET links == SelectSeq(sourcesList, LAMBDA item : item.kind = "link")
  IN [i \in 1..Len(links) |-> links[i].id]

\* The sourceId of the chart the selected insight names, if any.
ChartSourceIds ==
  LET si == state.selectedInsight IN
  IF si # None /\ si[1].chartKey \in DOMAIN dataset.charts
  THEN <<dataset.charts[si[1].chartKey].sourceId>> ELSE <<>>

\* The source ids listed under the selected discipline, if any.
DisciplineSourceIds ==
  LET sd == state.selectedDiscipline IN
  IF sd # None /\ sd[1] \in DOMAIN dataset.disciplines.sources
  THEN dataset.disciplines.sources[sd[1]] ELSE <<>>

\* seq lists every element of a and then of b exactly once, in the order of
\* their first occurrence.
IsUnionOf(seq, a, b) ==
  LET ab == a \o b IN
  /\ Range(seq) = Range(ab)
  /\ \A i, j \in 1..Len(seq) : i < j => seq[i] # seq[j]
  /\ \A i, j \in 1..Len(seq) :
       i < j => IndexOf(ab, seq[i]) < IndexOf(ab, seq[j])

\* C12: with the filter "all" the citation list shows exactly the keys of
\* sources in declaration order; with the filter "selection" it shows the
\* source id of the selected insight's chart followed by the source ids of
\* the selected discipline, each once.
ShownSourcesAreAggregation ==
  pc = "ready" =>
    IF state.sourceFilter = "all" THEN Shown = dataset.sources
    ELSE IsUnionOf(Shown, ChartSourceIds, DisciplineSourceIds)

\* C13: the citation list is never empty: when no source is displayable it
\* is exactly the placeholder item, in particular with the filter
\* "selection" and neither an insight nor a discipline selected.
SourcesListNeverEmpty ==
  pc = "ready" =>
    /\ sourcesList # <<>>
    /\ Shown = <<>> => sourcesList = <<Placeholder>>
    /\ (/\ state.sourceFilter = "selection"
        /\ state.selectedInsight = None
        /\ state.selectedDiscipline = None) => sourcesList = <<Placeholder>>

HasOwnDetail ==
  LET si == state.selectedInsight IN
  /\ si # None
  /\ si[1].chartKey \in DOMAIN dataset.charts
  /\ si[1].label \in DOMAIN dataset.charts[si[1].chartKey].drilldown

\* C14: the drawer shows the prompt when no insight is selected, the "no
\* details available" message when the selected chart has no drilldown
\* entry for the selected label, and otherwise that entry's headline with
\* the chart's source and as-of date.
DrawerShowsResolution ==
  pc = "ready" =>
    LET si == state.selectedInsight IN
    /\ si = None => drawer.kind = "prompt"
    /\ (si # None /\ ~HasOwnDetail) => drawer.kind = "nodetail"
    /\ HasOwnDetail =>
         LET chartObj == dataset.charts[si[1].chartKey] IN
         /\ drawer.kind = "detail"
         /\ drawer.headline = chartObj.drilldown[si[1].label].headline
         /\ drawer.source = chartObj.sourceId
         /\ drawer.asOf = chartObj.asOfDate

\* C15: a selected insight whose chartKey is no chart or whose label has no
\* drilldown entry shows the fallback message, a chart whose sourceId is no
\* key of sources shows the id as the source label, a selected discipline
\* that is no key of disciplines adds no source, and the drawer and the
\* source list leave the selection state as it is.
InvalidSelectionFallsBack ==
  pc = "ready" =>
    LET si == state.selectedInsight
        sd == state.selectedDiscipline
    IN /\ (si # None /\ si[1].chartKey \notin DOMAIN dataset.charts)
            => drawer.kind = "nodetail"
       /\ (/\ si # None
           /\ si[1].chartKey \in DOMAIN dataset.charts
           /\ si[1].label \notin DOMAIN dataset.charts[si[1].chartKey].drilldown)
            => drawer.kind = "nodetail"
       /\ (/\ HasOwnDetail
           /\ dataset.charts[si[1].chartKey].sourceId \notin Range(dataset.sources))
            => /\ drawer.kind = "detail"
               /\ drawer.source = dataset.charts[si[1].chartKey].sourceId
               /\ drawer.href = "#"
       /\ (/\ sd # None
           /\ sd[1] \notin Range(dataset.disciplines.names)
           /\ state.sourceFilter = "selection")
            => Range(Shown) \subseteq Range(ChartSourceIds)
       /\ renderInsightDrawer(World).state = state
       /\ renderSources(World).state = state

\* The source ids renderSources goes through.
Aggregated ==
  IF state.sourceFilter = "all" THEN dataset.sources
  ELSE getSelectedSourceIds(World)

\* C16: every aggregated source id has its own item in the citation list,
\* whether sources has an entry for it or not.
EverySourceIdHasItem ==
  (pc = "ready" /\ Aggregated # <<>>) =>
    /\ Len(sourcesList) = Len(Aggregated)
    /\ \A i \in 1..Len(sourcesList) : sourcesList[i].id = Aggregated[i]

\* The problems the checks of C17 find in data, in their order.
ClaimedProblems(data) ==
  When(data.shape.top # "object", E1)
  \o When(~data.shape.headline, E2)
  \o When(data.shape.coreSkills # "array", E3)
  \o When(~HasSourceId(data, TREND), E4)
  \o When(~HasSourceId(data, FAMILY), E5)
  \o When(~HasSourceId(data, SHARE), E6)
  \o When(data.shape.sources # "object", E7)
  \o When(data.shape.disciplines # "object", E8)

Booted == lastEvent.op \in {"boot", "bootFailed"}

\* C17: for a loaded value other than null, validateDataShape returns one
\* problem for each failed check, in the order of the checks: the page
\* initialises exactly when no check fails, and reports the problems the
\* checks find otherwise; disciplines given as a sequence is a problem.
ValidationReportsFailedChecks ==
  (Booted /\ dataset.shape.top # "null") =>
    /\ validateDataShape(dataset).errors = ClaimedProblems(dataset)
    /\ pc = "ready" <=> ClaimedProblems(dataset) = <<>>
    /\ pc = "failed" => alert = Alert("Could not initialize dashboard",
                                      ClaimedProblems(dataset))

\* C18: validateDataShape returns its problems for every loaded value and
\* never throws: a page that did not initialise reports a non-empty list of
\* validation problems.
ValidationIsTotal ==
  Booted =>
    /\ ~validateDataShape(dataset).threw
    /\ pc = "failed" =>
         /\ validateDataShape(dataset).errors # <<>>
         /\ alert = Alert("Could not initialize dashboard",
                          validateDataShape(dataset).errors)

\* C19: when the fetch fails or validation returns problems, init does not
\* run: no step of it is executed, no chart exists, the views are untouched,
\* the selection state has its defaults, the fragment and local storage are
\* as they were, and the one alert carries the fetch error or all the
\* validation problems; and a dataset with validation problems never
\* initialises the page.
LoadErrorsAbort ==
  /\ pc = "failed" =>
       /\ state = DefaultState
       /\ dashboardData = None
       /\ charts = <<>>
       /\ drawer = BlankDrawer /\ sourcesList = <<>> /\ discPanel = None
       /\ trace = <<>>
       /\ fragment = lastEvent.fragment /\ storage = lastEvent.storage
       /\ alert # None
       /\ alert[1].prefix = "Could not initialize dashboard"
       /\ lastEvent.op = "loadFailed" => alert[1].detail = FetchErrorMessage
       /\ (lastEvent.op = "bootFailed" /\ ~validateDataShape(dataset).threw)
            => alert[1].detail = validateDataShape(dataset).errors
  /\ (/\ Booted
      /\ ~validateDataShape(dataset).threw
      /\ validateDataShape(dataset).errors # <<>>) => pc = "failed"
  /\ lastEvent.op = "loadFailed" => pc = "failed"

LoadErrorsAbortWitness ==
  /\ pc = "failed"
  /\ lastEvent.op = "bootFailed"
  /\ alert # None
  /\ alert[1].detail = <<E3, E6>>
  /\ fragment # <<>>
  /\ storage # None

RecognisedKeys == { <<"discipline">>, <<"chart">>, <<"label">> }

\* The fragment with the pairs of its recognised keys only.
Recognised(f) ==
  ParamsToString(SelectSeq(URLSearchParams(f),
                           LAMBDA p : p.name \in RecognisedKeys))

\* The state applyStateFromHash leaves on a fresh page with fragment f and
\* local storage st.
DecodedFrom(f, st) ==
  applyStateFromHash([World EXCEPT !.state = DefaultState,
                                   !.fragment = f, !.storage = st]).state

\* The boot's fragment carries exactly one of chart and label.
ChartXorLabel ==
  LET params == URLSearchParams(lastEvent.fragment) IN
  Truthy(ParamsGet(params, <<"chart">>))
    # Truthy(ParamsGet(params, <<"label">>))

\* C22 as stated: the state applyStateFromHash leaves at boot is the one it
\* leaves for the fragment without its unrecognised keys; chart without
\* label, or label without chart, gives no selectedInsight; and an absent
\* fragment gives the default state, whatever local storage holds.
LenientDecode ==
  lastEvent.op = "boot" =>
    /\ Seeded = DecodedFrom(Recognised(lastEvent.fragment), lastEvent.storage)
    /\ ChartXorLabel => Seeded.selectedInsight = None
    /\ lastEvent.fragment = <<>> => Seeded = DefaultState

\* C22, amended: as above, but an absent fragment gives no selectedInsight,
\* the filter "selection" and the discipline local storage holds, the
\* default state when it holds none.
LenientDecodeStored ==
  lastEvent.op = "boot" =>
    /\ Seeded = DecodedFrom(Recognised(lastEvent.fragment), lastEvent.storage)
    /\ ChartXorLabel => Seeded.selectedInsight = None
    /\ lastEvent.fragment = <<>> =>
         Seeded = [DefaultState EXCEPT !.selectedDiscipline =
                     IF Truthy(lastEvent.storage) THEN lastEvent.storage
                     ELSE None]

LenientDecodeWitness ==
  /\ lastEvent.op = "boot"
  /\ Recognised(lastEvent.fragment) # lastEvent.fragment
  /\ Seeded.selectedDiscipline = Some(NURSING)
  /\ lastEvent.storage = Some(<<"Bogus">>)

\* The canonical encoding of a selection state: discipline if set, then chart
\* and label if an insight is selected, and nothing when both are empty.
CanonicalFragment(st) ==
  LET d == IF st.selectedDiscipline # None
           THEN <<"discipline", "=">> \o FormEncode(st.selectedDiscipline[1])
           ELSE <<>>
      i == IF st.selectedInsight # None
           THEN <<"chart", "=">> \o FormEncode(st.selectedInsight[1].chartKey)
                \o <<"&", "label", "=">>
                \o FormEncode(st.selectedInsight[1].label)
           ELSE <<>>
  IN IF d # <<>> /\ i # <<>> THEN d \o <<"&">> \o i ELSE d \o i

\* C23: once init has completed, and after every mutator, the fragment is
\* the canonical encoding of the current selectedDiscipline and
\* selectedInsight, also when the disciplines mapping is empty.
FragmentMirrorsState ==
  pc = "ready" => fragment = CanonicalFragment(state)

\* C26: a chart click and the clear button leave selectedDiscipline,
\* sourceFilter and local storage as they were; a discipline click leaves
\* selectedInsight and sourceFilter as they were; a filter change leaves
\* selectedInsight and selectedDiscipline as they were; and
\* updateAllChartStyles, renderInsightDrawer and renderSources change no
\* field of the selection state.
AxesIndependent ==
  /\ lastEvent.op \in {"click", "clear"} =>
       /\ state.selectedDiscipline = lastEvent.pre.selectedDiscipline
       /\ state.sourceFilter = lastEvent.pre.sourceFilter
       /\ storage = lastEvent.storage
  /\ lastEvent.op = "discipline" =>
       /\ state.selectedInsight = lastEvent.pre.selectedInsight
       /\ state.sourceFilter = lastEvent.pre.sourceFilter
  /\ lastEvent.op = "filter" =>
       /\ state.selectedInsight = lastEvent.pre.selectedInsight
       /\ state.selectedDiscipline = lastEvent.pre.selectedDiscipline
  /\ pc = "ready" =>
       /\ updateAllChartStyles(World).state = state
       /\ renderInsightDrawer(World).state = state
       /\ renderSources(World).state = state

AxesIndependentWitness ==
  /\ lastEvent.op = "clear"
  /\ lastEvent.pre.selectedInsight # None
  /\ state.selectedDiscipline = Some(DATASCI)
  /\ storage = Some(DATASCI)
  /\ state.sourceFilter = "all"
  /\ prevEvent.op = "discipline"

\* C21: no step of the copy-link and snapshot handlers (the click, the
\* settling of the awaited call in either way, the expiry of the timeout),
\* whenever it runs between selection events, changes selectedInsight,
\* selectedDiscipline, sourceFilter, the fragment or local storage, nor any
\* view other than the alert.
BannerStepsAbsorbed ==
  [][(/\ pc = "ready" /\ pc' = "ready"
      /\ <<started, copies, snaps, timers>>' # <<started, copies, snaps, timers>>)
       => UNCHANGED <<state, fragment, storage, charts, drawer, sourcesList,
                      discPanel>>]_vars

BannerStepsAbsorbedWitness ==
  /\ lastBanner = BannerStep("snapshotRejected", 1, <<>>)
  /\ started = 2
  /\ timers = <<2>>
  /\ state.selectedInsight # None
  /\ state.sourceFilter = "all"

\* C24: whenever a copy-link or snapshot handler has shown the alert, the
\* alert is eventually hidden, with no further click.
BannerIsTransient == (alertBy # 0) ~> (alert = None)

\* C25: an expiring timeout hides no alert but the confirmation of the copy
\* that set it.
TimerHidesOwnAlert ==
  lastBanner.op = "timer" =>
    lastBanner.hid \in { <<>>, <<lastBanner.id>> }

====
